---- MODULE Spec2Model ----
(***************************************************************************)
(* Payment-intent lifecycle of the UPI payment controller                  *)
(* (controllers/paymentController.js) and the part of the order controller *)
(* (controllers/orderController.js) that creates the orders it reconciles. *)
(*                                                                         *)
(* The two stores are the MongoDB collections behind the Transaction and   *)
(* Order models.  Every handler is an async function: it runs without      *)
(* interruption between two awaits, and other requests run while it waits. *)
(* One action of this module is one such uninterrupted piece, attached to  *)
(* the store operation whose completion starts it.                         *)
(***************************************************************************)
EXTENDS Integers, Sequences, FiniteSets, TLC

VARIABLES now, settings, products, txns, orders, removed, reqs, last, accepted

vars == <<now, settings, products, txns, orders, removed, reqs, last, accepted>>

---------------------------------------------------------------------------
(* Bounds of the model *)

MaxNow == 601
MaxTxns == 2
MaxOrders == 1
MaxReq == 2
MaxRandom == 1
MaxRaceTxns == 1
MaxAccepted == 2
MaxShopOrders == 3
MaxStock == 2

(* Program constants *)

ExpiryWindow == 600

---------------------------------------------------------------------------
(* Values *)

\* null / undefined / a missing request field
Null == <<>>

\* a missing string field of a request body (undefined, null and "" are all
\* falsy in JavaScript)
Missing == ""

Reqs == 1..MaxReq

\* a value of a JSON request body: its type and its text, one character to a
\* place (the text of a number is its decimal notation)
Undefined == [type |-> "undefined", text |-> <<>>]

JString(chars) == [type |-> "string", text |-> chars]

JNumber(chars) == [type |-> "number", text |-> chars]

Digits == <<"0", "1", "2", "3", "4", "5", "6", "7", "8", "9">>

Uppers ==
    <<"A", "B", "C", "D", "E", "F", "G", "H", "I", "J", "K", "L", "M",
      "N", "O", "P", "Q", "R", "S", "T", "U", "V", "W", "X", "Y", "Z">>

Lowers ==
    <<"a", "b", "c", "d", "e", "f", "g", "h", "i", "j", "k", "l", "m",
      "n", "o", "p", "q", "r", "s", "t", "u", "v", "w", "x", "y", "z">>

IsDigit(c) == \E d \in 1..Len(Digits) : Digits[d] = c

DigitValue(c) == (CHOOSE d \in 1..Len(Digits) : Digits[d] = c) - 1

\* a JavaScript number: NaN, or the integer v
NaN == [nan |-> TRUE, v |-> 0]

Num(n) == [nan |-> FALSE, v |-> n]

\* the value of the longest prefix of digits of s, after acc
RECURSIVE ParseDigits(_, _)
ParseDigits(s, acc) ==
    IF s = <<>> \/ ~IsDigit(Head(s)) THEN acc
    ELSE ParseDigits(Tail(s), acc * 10 + DigitValue(Head(s)))

RECURSIVE TrimStart(_)
TrimStart(s) == IF s # <<>> /\ Head(s) = " " THEN TrimStart(Tail(s)) ELSE s

RECURSIVE TrimEnd(_)
TrimEnd(s) ==
    IF s # <<>> /\ s[Len(s)] = " " THEN TrimEnd(SubSeq(s, 1, Len(s) - 1)) ELSE s

\* String.prototype.trim
Trim(s) == TrimEnd(TrimStart(s))

\* String.prototype.toLowerCase
ToLowerCase(s) ==
    [k \in 1..Len(s) |->
        IF \E u \in 1..Len(Uppers) : Uppers[u] = s[k]
        THEN Lowers[CHOOSE u \in 1..Len(Uppers) : Uppers[u] = s[k]]
        ELSE s[k]]

\* parseFloat of a text without fraction or exponent: leading blanks, a
\* sign, then the longest run of digits; NaN when there is no digit
ParseFloat(s) ==
    LET t == TrimStart(s)
        signed == t # <<>> /\ Head(t) \in {"-", "+"}
        u == IF signed THEN Tail(t) ELSE t
    IN  IF u = <<>> \/ ~IsDigit(Head(u)) THEN NaN
        ELSE IF signed /\ Head(t) = "-" THEN Num(0 - ParseDigits(u, 0))
        ELSE Num(ParseDigits(u, 0))

\* the decimal notation of a natural number
RECURSIVE NatToString(_)
NatToString(n) ==
    IF n < 10 THEN <<Digits[n + 1]>>
    ELSE NatToString(n \div 10) \o <<Digits[(n % 10) + 1]>>

\* Number.prototype.toString
NumberToString(a) ==
    IF a.nan THEN <<"N", "a", "N">>
    ELSE IF a.v < 0 THEN <<"-">> \o NatToString(0 - a.v)
    ELSE NatToString(a.v)

\* !x for a value of a request body: undefined, "" and 0 are falsy
Falsy(x) ==
    \/ x.type = "undefined"
    \/ x.type = "string" /\ x.text = <<>>
    \/ x.type = "number" /\ ParseFloat(x.text) \in {NaN, Num(0)}

\* Math.floor(paymentAmount * 100)
Paise(a) == IF a.nan THEN NaN ELSE Num(a.v * 100)

PhonePe == <<"p", "h", "o", "n", "e", "p", "e">>

Paytm == <<"p", "a", "y", "t", "m">>

\* the clock (in seconds) jumps by a whole expiry window, or by one second
\* more
Ticks == {ExpiryWindow, ExpiryWindow + 1}

Randoms == 0..(MaxRandom - 1)

\* the random suffixes where creation itself is explored: two creates in the
\* same millisecond may draw the same suffix or different ones
TidRandoms == 0..MaxRandom

Notes == {100}

MERCHANT_UPI == "mstandwafuelcentre@sbi"

MERCHANT_SECRET == "my_super_secret_key"

\* `cw${Date.now().toString(36)}${Math.random().toString(36).substring(2, 15)}`
generateTransactionId(t, rnd) == <<"cw", t, rnd>>

\* `s${Math.floor(Math.random() * 900) + 100}`
generateNote(rnd) == <<"s", rnd>>

\* HMAC-SHA256 of the payload under the merchant secret, as a term: two
\* signatures are equal exactly when key and payload are
createSignature(payload) == <<"hmac", MERCHANT_SECRET, payload>>

\* a signature no payload of the store has
ForgedSignature == <<"hmac", "other_key", Null>>

\* base64 of JSON.stringify(payloadJson), as a term over the fields that vary
PhonePePayload(upi, note, amount) ==
    <<"b64", "phonepe", upi, note, Paise(amount)>>

\* `phonepe://native?data=${payloadUrlenc}&id=p2ppayment`
\* the text of a merchant handle, one character to a place
HandleChars(upi) ==
    IF upi = MERCHANT_UPI
    THEN <<"m", "s", "t", "a", "n", "d", "w", "a", "f", "u", "e", "l", "c",
           "e", "n", "t", "r", "e", "@", "s", "b", "i">>
    ELSE <<"n", "e", "w", "m", "e", "r", "c", "h", "a", "n", "t", "@", "u",
           "p", "i">>

\* the text of a note
NoteChars(note) == <<note[1]>> \o NatToString(note[2])

\* the percent-encoding of the characters that are neither letters nor
\* digits and occur in handles, amounts and notes
Escapes ==
    [c \in {"@", "=", "&", "+", "/", ":", "?"} |->
        CASE c = "@" -> <<"%", "4", "0">>
          [] c = "=" -> <<"%", "3", "D">>
          [] c = "&" -> <<"%", "2", "6">>
          [] c = "+" -> <<"%", "2", "B">>
          [] c = "/" -> <<"%", "2", "F">>
          [] c = ":" -> <<"%", "3", "A">>
          [] c = "?" -> <<"%", "3", "F">>]

\* URLSearchParams.prototype.toString for one value: letters, digits and
\* * - . _ are kept, a blank becomes +, every other character is
\* percent-encoded
RECURSIVE FormEncode(_)
FormEncode(s) ==
    IF s = <<>> THEN <<>>
    ELSE (IF Head(s) = " " THEN <<"+">>
          ELSE IF Head(s) \in DOMAIN Escapes THEN Escapes[Head(s)]
          ELSE <<Head(s)>>) \o FormEncode(Tail(s))

\* encodeURIComponent of the base64 payload, as a term
EncodeURIComponent(payload) == <<"encodeURIComponent", payload>>

\* `phonepe://native?data=${payloadUrlenc}&id=p2ppayment`
PhonePeRedirect(payload) ==
    <<"phonepe://native?data=", EncodeURIComponent(payload), "&id=p2ppayment">>

\* the query of the Paytm deep link after the four values that vary
PaytmFixedParams ==
    <<"&mc=", "&cu=INR", "&url=", "&mode=", "&purpose=", "&orgid=", "&sign=",
      "&featuretype=money_transfer">>

PaytmRedirect(upi, note, amount) ==
    <<"paytmmp://cash_wallet?", "pa=">> \o FormEncode(HandleChars(upi)) \o
    <<"&am=">> \o FormEncode(NumberToString(amount)) \o
    <<"&tn=">> \o FormEncode(NoteChars(note)) \o
    <<"&pn=">> \o FormEncode(HandleChars(upi)) \o PaytmFixedParams

PaytmPayload(upi, note, amount, tid, expires) ==
    <<"b64", "paytm", PaytmRedirect(upi, note, amount), tid, expires>>

\* Schema defaults of a new Transaction document
TransactionDefaults == [status |-> "pending", completedAt |-> Null]

\* Schema defaults of a new Order document
OrderDefaults == [paymentStatus |-> "unpaid", status |-> "pending"]

\* The settings document before any change: the handle the controller
\* carried as a constant before it read the settings
SettingsDefaults == [merchantUPI |-> MERCHANT_UPI]

\* The Product collection the shop starts with: an active product, an
\* inactive one, and an active one with a single piece in stock
Catalogue ==
    [p1 |-> [status |-> "active", stockQuantity |-> MaxStock],
     p2 |-> [status |-> "inactive", stockQuantity |-> MaxStock],
     p3 |-> [status |-> "active", stockQuantity |-> 1]]

\* The Transaction schema puts no constraint on the status string
TransactionValidates(status) == TRUE

\* amount is a Number path: the cast of NaN fails, every other number is
\* kept (the schema puts no minimum on it)
AmountCasts(amount) == ~amount.nan

---------------------------------------------------------------------------
(* The stores *)

\* Transaction.findOne({ tid }): the first stored document with that tid, 0
\* when there is none
FindOne(tid) ==
    IF \E i \in 1..Len(txns) : txns[i].tid = tid
    THEN CHOOSE i \in 1..Len(txns) :
             /\ txns[i].tid = tid
             /\ \A j \in 1..(i - 1) : txns[j].tid # tid
    ELSE 0

\* Order.findById(orderId): the order's place in the collection, 0 when
\* there is none
FindById(orderId) ==
    IF /\ orderId # Null
       /\ orderId[1] \in 1..Len(orders)
       /\ orderId[1] \notin removed
    THEN orderId[1] ELSE 0

\* Product.findOne({ id, status: 'active' }): the id when there is such a
\* product, Missing when there is none
FindActiveProduct(id) ==
    IF id \in DOMAIN products /\ products[id].status = "active"
    THEN id ELSE Missing

\* the expiry check without the test of the status
IsExpiredAnyStatus(doc, t) == t > doc.expires

\* the expiry check with the window added once more
IsExpiredLate(doc, t) == doc.status = "pending" /\ t > doc.expires + ExpiryWindow

\* transaction.status === 'pending' && new Date() > transaction.expires
IsExpired(doc, t) == doc.status = "pending" /\ t > doc.expires

\* the checks of verifyPayment with the signature expected over the tid
VerifyCheckSignsTid(id, sig) ==
    IF id = 0 THEN "notfound"
    ELSE IF sig # Null /\ sig # createSignature(txns[id].tid) THEN "badsig"
    ELSE IF txns[id].status # "pending" THEN "already"
    ELSE "ok"

\* the checks of verifyPayment with the already-processed check made first
VerifyCheckPendingFirst(id, sig) ==
    IF id = 0 THEN "notfound"
    ELSE IF txns[id].status # "pending" THEN "already"
    ELSE IF sig # Null /\ sig # createSignature(txns[id].payload) THEN "badsig"
    ELSE "ok"

\* the checks of verifyPayment without the already-processed check
VerifyCheckNoPending(id, sig) ==
    IF id = 0 THEN "notfound"
    ELSE IF sig # Null /\ sig # createSignature(txns[id].payload) THEN "badsig"
    ELSE "ok"

\* the checks of verifyPayment between findOne and the first write, in the
\* order the handler makes them: the kind of the error response, or "ok"
VerifyCheckExpiry(id, sig) ==
    IF id = 0 THEN "notfound"
    ELSE IF sig # Null /\ sig # createSignature(txns[id].payload) THEN "badsig"
    ELSE IF txns[id].status # "pending" THEN "already"
    ELSE IF now > txns[id].expires THEN "expired"
    ELSE "ok"

VerifyCheck(id, sig) ==
    IF id = 0 THEN "notfound"
    ELSE IF sig # Null /\ sig # createSignature(txns[id].payload) THEN "badsig"
    ELSE IF txns[id].status # "pending" THEN "already"
    ELSE "ok"

\* the paths of a loaded document that an assignment has marked modified:
\* those whose assigned value differs from the loaded one
ModifiedPaths(loaded, assigned) ==
    {f \in DOMAIN loaded : assigned[f] # loaded[f]}

\* the order fields with the two outcomes exchanged
OrderUpdateSwapped(status, order) ==
    IF status = "failed"
    THEN [order EXCEPT !.paymentStatus = "paid", !.status = "confirmed"]
    ELSE IF status = "success"
    THEN [order EXCEPT !.paymentStatus = "failed", !.status = "cancelled"]
    ELSE order

\* the order fields with every status but success taken for a failure
OrderUpdateElseFailed(status, order) ==
    IF status = "success"
    THEN [order EXCEPT !.paymentStatus = "paid", !.status = "confirmed"]
    ELSE [order EXCEPT !.paymentStatus = "failed", !.status = "cancelled"]

\* the order fields verifyPayment assigns for a reported status
OrderUpdateKeepsPaid(status, order) ==
    IF order.paymentStatus = "paid" THEN order
    ELSE IF status = "success"
    THEN [order EXCEPT !.paymentStatus = "paid", !.status = "confirmed"]
    ELSE IF status = "failed"
    THEN [order EXCEPT !.paymentStatus = "failed", !.status = "cancelled"]
    ELSE order

OrderUpdate(status, order) ==
    IF status = "success"
    THEN [order EXCEPT !.paymentStatus = "paid", !.status = "confirmed"]
    ELSE IF status = "failed"
    THEN [order EXCEPT !.paymentStatus = "failed", !.status = "cancelled"]
    ELSE order

---------------------------------------------------------------------------
(* Requests in flight *)

\* last is the response sent in the step just taken (NoResp when the step
\* sent none); accepted[i] is the history of the reported statuses that verify
\* answered with success for the stored transaction i, as far as MaxAccepted.
\* a response: the handler that sent it, the tid of the request it answers,
\* its kind ("ok" or the error), the status it reports (ok) or names
\* (already) and, with an error of verify, the signature the request carried
NoResp ==
    [handler |-> "none", tid |-> Null, sig |-> Null, kind |-> "none",
     status |-> ""]

Resp(handler, tid, sig, kind, status) ==
    [handler |-> handler, tid |-> tid, sig |-> sig, kind |-> kind,
     status |-> status]

\* the 200 response of checkPaymentStatus with the handle configured now
StatusRespCurrentHandle(doc, status) ==
    [handler |-> "status", tid |-> doc.tid, sig |-> Null, kind |-> "ok",
     status |-> status, amount |-> doc.amount, payType |-> doc.payType,
     upi |-> settings.merchantUPI]

\* the 200 response of checkPaymentStatus for a document and its status
StatusResp(doc, status) ==
    [handler |-> "status", tid |-> doc.tid, sig |-> Null, kind |-> "ok",
     status |-> status, amount |-> doc.amount, payType |-> doc.payType,
     upi |-> doc.upi]

\* pc: idle, or the await the handler is suspended at.
\* tid, status: the request.  id, completedAt, orderId, order, newOrder,
\* modified: the handler's in-memory documents and their modified paths.
IdleReq ==
    [pc |-> "idle", tid |-> Null, status |-> "", id |-> 0,
     completedAt |-> Null, orderId |-> Null, order |-> 0,
     newOrder |-> OrderDefaults, modified |-> {}]

\* requests are served by the lowest free slot (the slots are anonymous)
Free(r) ==
    /\ reqs[r].pc = "idle"
    /\ \A q \in 1..(r - 1) : reqs[q].pc # "idle"

Quiet == \A r \in Reqs : reqs[r].pc = "idle"

\* what a client may send
PayTypes == {"phonepe", "paytm"}

\* the last step of createPayment's validation: the normalised payType as
\* the string that is stored
PaymentType(chars) == IF chars = PhonePe THEN "phonepe" ELSE "paytm"

\* the provider of the intents whose life after creation is explored (no
\* handler reads payType after creation)
PayTypeInputs == {JString(Paytm)}

Amounts == {JNumber(<<"1", "0", "0">>)}

\* payType as a create request may carry it: absent, a number, an unknown
\* provider, and the two providers in other spellings
RawPayTypes ==
    {Undefined, JNumber(<<"5">>), JString(<<"g", "p", "a", "y">>),
     JString(<<" ", "P", "a", "y", "T", "M", " ">>),
     JString(<<"P", "H", "O", "N", "E", "P", "E">>)}

\* amount as a create request may carry it: absent, zero, positive,
\* negative, and strings with and without a leading number
RawAmounts ==
    {Undefined, JNumber(<<"0">>), JNumber(<<"5", "0">>), JNumber(<<"-", "5">>),
     JString(<<"a", "b", "c">>), JString(<<"7", "x">>)}

\* the products of the orders that payments are made for
OneItem == <<[id |-> "p1", quantity |-> 1]>>

\* the handles the settings may be given
Handles == {MERCHANT_UPI, "newmerchant@upi"}

\* the bodies of a create request where the settings are explored
SettingsPayTypes == {JString(Paytm), JString(<<"g", "p", "a", "y">>)}

\* the orders a create request refers to where creation itself is explored
CreateOrderIds == {Null} \cup {<<k>> : k \in 1..Len(orders)}

\* the statuses updateOrderStatus accepts
validStatuses ==
    {"pending", "confirmed", "processing", "shipped", "delivered", "cancelled"}

\* the statuses sent to updateOrderStatus
StatusInputs == {"shipped", "cancelled", "paid"}

\* the products of the requests sent to createOrder
ItemInputs ==
    {<<>>} \cup
    {<<[id |-> i, quantity |-> q]>> :
        i \in {"p1", "p2", "p3", "p9"}, q \in 1..MaxStock + 1} \cup
    {<<[id |-> "p1", quantity |-> q], [id |-> i, quantity |-> 2]>> :
        i \in {"p2", "p3", "p9"}, q \in 1..MaxStock}

OrderIdInputs == {Null, <<0>>} \cup {<<k>> : k \in 1..Len(orders)}

UnknownTid == <<"cw", -1, 0>>

StoredTids == {txns[i].tid : i \in 1..Len(txns)}

\* a collection that takes every insert
DuplicateKeyIgnored(tid) == FALSE

\* tid is a unique key of the Transaction collection: the insert of a second
\* document with a stored tid is refused
DuplicateKey(tid) == tid \in StoredTids

TidInputs == {Null, UnknownTid} \cup StoredTids

ReportedStatuses == {"success", "failed", "pending", "refunded"}

\* no signature, a wrong one, and the one create returned for that tid
SignatureInputs(tid) ==
    {Null, ForgedSignature} \cup
    {txns[i].signature : i \in {j \in 1..Len(txns) : txns[j].tid = tid}}

\* the bodies of a verify request: <<tid, status, signature>>
VerifyInputs ==
    {<<Null, "success", Null>>} \cup
    {<<t, Missing, Null>> : t \in StoredTids} \cup
    UNION {{<<t, s, g>> : s \in ReportedStatuses, g \in SignatureInputs(t)} :
           t \in {UnknownTid} \cup StoredTids}

---------------------------------------------------------------------------
(* Initial state: empty collections, no request in flight *)

Init ==
    /\ now = 0
    /\ settings = SettingsDefaults
    /\ products = Catalogue
    /\ removed = {}
    /\ txns = <<>>
    /\ orders = <<>>
    /\ reqs = [r \in Reqs |-> IdleReq]
    /\ last = NoResp
    /\ accepted = <<>>

\* time passes
Tick ==
    /\ \E d \in Ticks : now + d <= MaxNow /\ now' = now + d
    /\ last' = NoResp
    /\ UNCHANGED <<products, removed, settings, txns, orders, reqs, accepted>>

---------------------------------------------------------------------------
(* POST /api/payment/create *)

\* the validation of createPayment: the kind of the error response, or "ok"
CreateCheck(amount, payType) ==
    IF Falsy(amount) \/ Falsy(payType) THEN "invalid"
    ELSE IF payType.type # "string" THEN "error"
    ELSE IF Trim(ToLowerCase(payType.text)) \notin {PhonePe, Paytm}
    THEN "unsupported"
    ELSE "ok"

NewTransaction(upi, payType, amount, orderId, rnd, rnd2) ==
    LET tid == generateTransactionId(now, rnd)
        expires == now + ExpiryWindow
        note == generateNote(rnd2)
        payload == IF payType = "phonepe"
                   THEN PhonePePayload(upi, note, amount)
                   ELSE PaytmPayload(upi, note, amount, tid, expires)
        redirectUrl == IF payType = "phonepe"
                       THEN PhonePeRedirect(payload)
                       ELSE PaytmRedirect(upi, note, amount)
    IN  [tid |-> tid, orderId |-> orderId, amount |-> amount,
         payType |-> payType, upi |-> upi,
         status |-> TransactionDefaults.status,
         completedAt |-> TransactionDefaults.completedAt,
         payload |-> payload, signature |-> createSignature(payload),
         redirectUrl |-> redirectUrl, note |-> note,
         expires |-> expires]

\* the 200 response of createPayment with a signature of the tid
CreateRespSignsTid(doc) ==
    [handler |-> "create", kind |-> "ok", tid |-> doc.tid,
     sig |-> createSignature(doc.tid), status |-> "", payload |-> doc.payload,
     redirect_url |-> doc.redirectUrl, expires |-> doc.expires,
     amount |-> NumberToString(doc.amount)]

\* the 200 response of createPayment
CreateResp(doc) ==
    [handler |-> "create", kind |-> "ok", tid |-> doc.tid,
     sig |-> doc.signature, status |-> "", payload |-> doc.payload,
     redirect_url |-> doc.redirectUrl, expires |-> doc.expires,
     amount |-> NumberToString(doc.amount)]

\* an error response of createPayment, with the amount and payType of the
\* request it answers
CreateError(kind, amount, payType) ==
    [handler |-> "create", kind |-> kind, tid |-> Null, sig |-> Null,
     status |-> "", amount |-> amount, payType |-> payType]

\* validation, then the document is built and saved; the save fails when the
\* amount does not cast or the tid is already stored
CreatePayment(payType, amount, orderId, rnd, rnd2) ==
    /\ Len(txns) < MaxTxns
    /\ LET check == CreateCheck(amount, payType)
           doc == NewTransaction(MERCHANT_UPI,
                                 PaymentType(Trim(ToLowerCase(payType.text))),
                                 ParseFloat(amount.text), orderId, rnd, rnd2)
       IN  IF check # "ok"
           THEN /\ last' = CreateError(check, amount, payType)
                /\ UNCHANGED <<txns, accepted>>
           ELSE IF ~AmountCasts(doc.amount) \/ DuplicateKey(doc.tid)
           THEN /\ last' = CreateError("error", amount, payType)
                /\ UNCHANGED <<txns, accepted>>
           ELSE /\ txns' = Append(txns, doc)
                /\ accepted' = Append(accepted, <<>>)
                /\ last' = CreateResp(doc)
    /\ UNCHANGED <<products, removed, now, settings, orders, reqs>>

\* createPayment reading the handle from the settings: validation, then
\* Settings.getSettings() resolves with the settings as they are now
CreateFetch(r, payType, amount, orderId) ==
    /\ Free(r)
    /\ Len(txns) < MaxTxns
    /\ LET check == CreateCheck(amount, payType)
       IN  IF check # "ok"
           THEN /\ last' = CreateError(check, amount, payType)
                /\ UNCHANGED reqs
           ELSE /\ reqs' = [reqs EXCEPT ![r] =
                      [pc |-> "c_save", upi |-> settings.merchantUPI,
                       payType |-> payType, amount |-> amount,
                       orderId |-> orderId]]
                /\ last' = NoResp
    /\ UNCHANGED <<products, removed, now, settings, txns, orders, accepted>>

\* the document is built with the handle that was read and saved, then the
\* response
CreateSave(r, rnd, rnd2) ==
    /\ reqs[r].pc = "c_save"
    /\ LET req == reqs[r]
           doc == NewTransaction(req.upi,
                                 PaymentType(Trim(ToLowerCase(req.payType.text))),
                                 ParseFloat(req.amount.text), req.orderId,
                                 rnd, rnd2)
       IN  IF ~AmountCasts(doc.amount) \/ DuplicateKey(doc.tid)
           THEN /\ last' = CreateError("error", req.amount, req.payType)
                /\ UNCHANGED <<txns, accepted>>
           ELSE /\ txns' = Append(txns, doc)
                /\ accepted' = Append(accepted, <<>>)
                /\ last' = CreateResp(doc)
    /\ reqs' = [reqs EXCEPT ![r] = IdleReq]
    /\ UNCHANGED <<products, removed, now, settings, orders>>

---------------------------------------------------------------------------
(* GET /api/payment/merchant-upi, and the change of the settings *)

GetMerchantUPI ==
    /\ last' = [handler |-> "merchant-upi", kind |-> "ok", tid |-> Null,
                sig |-> Null, status |-> "", upi |-> settings.merchantUPI]
    /\ UNCHANGED <<products, removed, now, settings, txns, orders, reqs, accepted>>

\* the merchant handle of the settings document is replaced
UpdateSettings(upi) ==
    /\ upi # settings.merchantUPI
    /\ settings' = [settings EXCEPT !.merchantUPI = upi]
    /\ last' = NoResp
    /\ UNCHANGED <<products, removed, now, txns, orders, reqs, accepted>>

---------------------------------------------------------------------------
(* POST /createOrder *)

\* a response of the order controller, with the products of the request it
\* answers
OrderResp(handler, kind, items) ==
    [handler |-> handler, kind |-> kind, tid |-> Null, sig |-> Null,
     status |-> "", items |-> items]

\* the loop of createOrder over the products of the request: the kind of the
\* first rejection, or "ok"
RECURSIVE CheckProducts(_)
CheckProducts(items) ==
    IF items = <<>> THEN "ok"
    ELSE LET id == FindActiveProduct(Head(items).id)
         IN  IF id = Missing THEN "noproduct"
             ELSE IF products[id].stockQuantity < Head(items).quantity
             THEN "nostock"
             ELSE CheckProducts(Tail(items))

\* a new Order document: the processed products and the schema defaults
NewOrder(items) == [products |-> items] @@ OrderDefaults

\* createOrder whose loop takes the ordered quantity from the stock of each
\* product
CreateOrderTakesStock(complete, items) ==
    /\ Len(orders) < MaxShopOrders
    /\ IF ~complete
       THEN /\ last' = OrderResp("createOrder", "missing", items)
            /\ UNCHANGED <<orders, products>>
       ELSE IF items = <<>>
       THEN /\ last' = OrderResp("createOrder", "noproducts", items)
            /\ UNCHANGED <<orders, products>>
       ELSE IF CheckProducts(items) # "ok"
       THEN /\ last' = OrderResp("createOrder", CheckProducts(items), items)
            /\ UNCHANGED <<orders, products>>
       ELSE /\ orders' = Append(orders, NewOrder(items))
            /\ products' =
                  [products EXCEPT ![Head(items).id].stockQuantity =
                      @ - Head(items).quantity]
            /\ last' = OrderResp("createOrder", "created", items)
    /\ UNCHANGED <<removed, now, settings, txns, reqs, accepted>>

\* the required fields, the products array, every product looked up and
\* checked, then the order is saved; the stock is left as it is
CreateOrder(complete, items) ==
    /\ Len(orders) < MaxShopOrders
    /\ IF ~complete
       THEN /\ last' = OrderResp("createOrder", "missing", items)
            /\ UNCHANGED orders
       ELSE IF items = <<>>
       THEN /\ last' = OrderResp("createOrder", "noproducts", items)
            /\ UNCHANGED orders
       ELSE IF CheckProducts(items) # "ok"
       THEN /\ last' = OrderResp("createOrder", CheckProducts(items), items)
            /\ UNCHANGED orders
       ELSE /\ orders' = Append(orders, NewOrder(items))
            /\ last' = OrderResp("createOrder", "created", items)
    /\ UNCHANGED <<products, removed, now, settings, txns, reqs, accepted>>

---------------------------------------------------------------------------
(* GET /api/payment/status/:tid *)

\* the request arrives, findOne resolves, the handler checks expiry and
\* either responds or assigns status and starts the save
StatusFind(r, tid) ==
    /\ Free(r)
    /\ LET id == FindOne(tid)
       IN  IF tid = Null
           THEN /\ last' = Resp("status", tid, Null, "missing", "")
                /\ UNCHANGED reqs
           ELSE IF id = 0
           THEN /\ last' = Resp("status", tid, Null, "notfound", "")
                /\ UNCHANGED reqs
           ELSE IF IsExpired(txns[id], now)
           THEN /\ reqs' = [reqs EXCEPT ![r] =
                      [IdleReq EXCEPT !.pc = "s_save", !.tid = tid,
                                      !.id = id, !.status = "expired"]]
                /\ last' = NoResp
           ELSE /\ last' = StatusResp(txns[id], txns[id].status)
                /\ UNCHANGED reqs
    /\ UNCHANGED <<products, removed, now, settings, txns, orders, accepted>>

\* a save of the status read that also writes a new expiry time
StatusSaveRenews(r) ==
    /\ reqs[r].pc = "s_save"
    /\ txns' = [txns EXCEPT ![reqs[r].id].status = reqs[r].status,
                            ![reqs[r].id].expires = now + ExpiryWindow]
    /\ last' = StatusResp(txns[reqs[r].id], reqs[r].status)
    /\ reqs' = [reqs EXCEPT ![r] = IdleReq]
    /\ UNCHANGED <<products, removed, now, settings, orders, accepted>>

\* transaction.save() with status as the only modified path, then the response
StatusSave(r) ==
    /\ reqs[r].pc = "s_save"
    /\ txns' = [txns EXCEPT ![reqs[r].id].status = reqs[r].status]
    /\ last' = StatusResp(txns[reqs[r].id], reqs[r].status)
    /\ reqs' = [reqs EXCEPT ![r] = IdleReq]
    /\ UNCHANGED <<products, removed, now, settings, orders, accepted>>

---------------------------------------------------------------------------
(* POST /api/payment/verify *)

\* res.status(200).json({ success: true, ... }): the handler is over
Success(r) ==
    /\ reqs' = [reqs EXCEPT ![r] = IdleReq]
    /\ last' = Resp("verify", reqs[r].tid, Null, "ok", reqs[r].status)
    /\ accepted' = [accepted EXCEPT ![reqs[r].id] =
          IF Len(@) < MaxAccepted THEN Append(@, reqs[r].status) ELSE @]

\* verifyPayment with completedAt stamped and saved before the
\* already-processed check
VerifyFindStampFirst(r, tid, status, sig) ==
    /\ Free(r)
    /\ LET id == FindOne(tid)
           check == VerifyCheck(id, sig)
       IN  IF tid = Null \/ status = Missing
           THEN /\ last' = Resp("verify", tid, sig, "missing", "")
                /\ UNCHANGED <<reqs, txns>>
           ELSE IF check = "already"
           THEN /\ last' = Resp("verify", tid, sig, "already", txns[id].status)
                /\ txns' = [txns EXCEPT ![id].completedAt = <<now>>]
                /\ UNCHANGED reqs
           ELSE IF check # "ok"
           THEN /\ last' = Resp("verify", tid, sig, check, "")
                /\ UNCHANGED <<reqs, txns>>
           ELSE /\ reqs' = [reqs EXCEPT ![r] =
                      [IdleReq EXCEPT !.pc = "v_save", !.tid = tid,
                                      !.id = id, !.status = status,
                                      !.completedAt = <<now>>,
                                      !.orderId = txns[id].orderId]]
                /\ last' = NoResp
                /\ UNCHANGED txns
    /\ UNCHANGED <<products, removed, now, settings, orders, accepted>>

\* the request arrives, findOne resolves, the handler makes its checks and
\* either responds with an error or assigns status and completedAt and
\* starts the save
VerifyFind(r, tid, status, sig) ==
    /\ Free(r)
    /\ LET id == FindOne(tid)
           check == VerifyCheck(id, sig)
       IN  IF tid = Null \/ status = Missing
           THEN /\ last' = Resp("verify", tid, sig, "missing", "")
                /\ UNCHANGED reqs
           ELSE IF check = "already"
           THEN /\ last' = Resp("verify", tid, sig, "already", txns[id].status)
                /\ UNCHANGED reqs
           ELSE IF check # "ok"
           THEN /\ last' = Resp("verify", tid, sig, check, "")
                /\ UNCHANGED reqs
           ELSE /\ reqs' = [reqs EXCEPT ![r] =
                      [IdleReq EXCEPT !.pc = "v_save", !.tid = tid,
                                      !.id = id, !.status = status,
                                      !.completedAt = <<now>>,
                                      !.orderId = txns[id].orderId]]
                /\ last' = NoResp
    /\ UNCHANGED <<products, removed, now, settings, txns, orders, accepted>>

\* transaction.save(): completedAt is a modified path, status is one when the
\* assigned value differs from the value loaded ('pending'); then the
\* response, when the transaction has no orderId
VerifySave(r) ==
    /\ reqs[r].pc = "v_save"
    /\ LET req == reqs[r]
       IN  IF TransactionValidates(req.status)
           THEN /\ txns' = [txns EXCEPT ![req.id] =
                      [@ EXCEPT !.status = IF req.status # "pending"
                                           THEN req.status ELSE @,
                                !.completedAt = req.completedAt]]
                /\ IF req.orderId # Null
                   THEN /\ reqs' = [reqs EXCEPT ![r].pc = "v_findOrder"]
                        /\ last' = NoResp
                        /\ UNCHANGED accepted
                   ELSE Success(r)
           ELSE /\ last' = Resp("verify", req.tid, Null, "error", "")
                /\ reqs' = [reqs EXCEPT ![r] = IdleReq]
                /\ UNCHANGED <<txns, accepted>>
    /\ UNCHANGED <<products, removed, now, settings, orders>>

VerifyFindOrderStrict(r) ==
    /\ reqs[r].pc = "v_findOrder"
    /\ LET req == reqs[r]
           k == FindById(req.orderId)
       IN  IF k = 0
           THEN /\ last' = Resp("verify", req.tid, Null, "error", "")
                /\ reqs' = [reqs EXCEPT ![r] = IdleReq]
                /\ UNCHANGED accepted
           ELSE /\ reqs' = [reqs EXCEPT ![r] =
                      [req EXCEPT !.pc = "v_saveOrder", !.order = k,
                                  !.newOrder = OrderUpdate(req.status, orders[k]),
                                  !.modified = ModifiedPaths(orders[k],
                                      OrderUpdate(req.status, orders[k]))]]
                /\ last' = NoResp
                /\ UNCHANGED accepted
    /\ UNCHANGED <<products, removed, now, settings, txns, orders>>

\* Order.findById resolves; the handler assigns the order's fields and starts
\* order.save(), or responds when there is no such order
VerifyFindOrder(r) ==
    /\ reqs[r].pc = "v_findOrder"
    /\ LET req == reqs[r]
           k == FindById(req.orderId)
       IN  IF k = 0
           THEN Success(r)
           ELSE /\ reqs' = [reqs EXCEPT ![r] =
                      [req EXCEPT !.pc = "v_saveOrder", !.order = k,
                                  !.newOrder = OrderUpdate(req.status, orders[k]),
                                  !.modified = ModifiedPaths(orders[k],
                                      OrderUpdate(req.status, orders[k]))]]
                /\ last' = NoResp
                /\ UNCHANGED accepted
    /\ UNCHANGED <<products, removed, now, settings, txns, orders>>

\* order.save() writes the modified paths (the fields whose assigned value
\* differs from the value loaded), then the response
VerifySaveOrder(r) ==
    /\ reqs[r].pc = "v_saveOrder"
    /\ LET req == reqs[r]
           k == req.order
       IN  IF k \in removed /\ req.modified # {}
           THEN /\ last' = Resp("verify", req.tid, Null, "error", "")
                /\ reqs' = [reqs EXCEPT ![r] = IdleReq]
                /\ UNCHANGED <<orders, accepted>>
           ELSE /\ orders' = [orders EXCEPT ![k] =
                      [f \in DOMAIN @ |->
                          IF f \in req.modified THEN req.newOrder[f] ELSE @[f]]]
                /\ Success(r)
    /\ UNCHANGED <<products, removed, now, settings, txns>>

VerifyOrderWriteFailsRollsBack(r) ==
    /\ reqs[r].pc = "v_saveOrder"
    /\ last' = Resp("verify", reqs[r].tid, Null, "error", "")
    /\ reqs' = [reqs EXCEPT ![r] = IdleReq]
    /\ txns' = [txns EXCEPT ![reqs[r].id] =
          [@ EXCEPT !.status = "pending", !.completedAt = Null]]
    /\ UNCHANGED <<products, removed, now, settings, orders, accepted>>

\* order.save() rejects (the store fails): the catch answers 500, after the
\* transaction was saved
VerifyOrderWriteFails(r) ==
    /\ reqs[r].pc = "v_saveOrder"
    /\ last' = Resp("verify", reqs[r].tid, Null, "error", "")
    /\ reqs' = [reqs EXCEPT ![r] = IdleReq]
    /\ UNCHANGED <<products, removed, now, settings, txns, orders, accepted>>

\* updateOrderStatus: the status must be one of the valid statuses; then
\* findByIdAndUpdate sets the status of the order, when there is one
UpdateOrderStatus(id, status) ==
    /\ IF status \notin validStatuses
       THEN /\ last' = OrderResp("updateOrderStatus", "invalid", <<>>)
            /\ UNCHANGED orders
       ELSE IF id = Null
       THEN /\ last' = OrderResp("updateOrderStatus", "error", <<>>)
            /\ UNCHANGED orders
       ELSE IF FindById(id) = 0
       THEN /\ last' = OrderResp("updateOrderStatus", "notfound", <<>>)
            /\ UNCHANGED orders
       ELSE /\ orders' = [orders EXCEPT ![FindById(id)].status = status]
            /\ last' = OrderResp("updateOrderStatus", "ok", <<>>)
    /\ UNCHANGED <<products, removed, now, settings, txns, reqs, accepted>>

\* deleteOrder: the id must be an object id; findById, then findByIdAndDelete
\* (an order removed in between by another delete is removed all the same)
DeleteOrder(id) ==
    /\ IF id = Null
       THEN /\ last' = OrderResp("deleteOrder", "badid", <<>>)
            /\ UNCHANGED removed
       ELSE IF FindById(id) = 0
       THEN /\ last' = OrderResp("deleteOrder", "notfound", <<>>)
            /\ UNCHANGED removed
       ELSE /\ removed' = removed \cup {FindById(id)}
            /\ last' = OrderResp("deleteOrder", "ok", <<>>)
    /\ UNCHANGED <<products, now, settings, txns, orders, reqs, accepted>>

---------------------------------------------------------------------------
(* Specifications *)

\* requests interleave at their awaits, on as many as MaxRaceTxns intents
Next ==
    \/ Tick
    \/ /\ Len(txns) < MaxRaceTxns
       /\ \E p \in PayTypeInputs, a \in Amounts, o \in OrderIdInputs,
             x \in Randoms, y \in Notes : CreatePayment(p, a, o, x, y)
    \/ Len(orders) < MaxOrders /\ CreateOrder(TRUE, OneItem)
    \/ \E r \in Reqs, t \in TidInputs : StatusFind(r, t)
    \/ \E r \in Reqs : StatusSave(r)
    \/ \E r \in Reqs, b \in VerifyInputs : VerifyFind(r, b[1], b[2], b[3])
    \/ \E r \in Reqs : VerifySave(r)
    \/ \E r \in Reqs : VerifyFindOrder(r)
    \/ \E r \in Reqs : VerifySaveOrder(r)

Spec == Init /\ [][Next]_vars

\* The payment and order requests run one after another, with orders deleted
\* and order writes failing
OrderNext ==
    \/ Tick
    \/ /\ Quiet
       /\ Len(txns) < MaxRaceTxns
       /\ \E p \in PayTypeInputs, a \in Amounts, o \in OrderIdInputs,
             x \in Randoms, y \in Notes : CreatePayment(p, a, o, x, y)
    \/ Quiet /\ Len(orders) < MaxOrders /\ CreateOrder(TRUE, OneItem)
    \/ Quiet /\ \E o \in OrderIdInputs, s \in StatusInputs :
                   UpdateOrderStatus(o, s)
    \/ Quiet /\ \E o \in OrderIdInputs : DeleteOrder(o)
    \/ Quiet /\ \E r \in Reqs, t \in TidInputs : StatusFind(r, t)
    \/ \E r \in Reqs : StatusSave(r)
    \/ Quiet /\ \E r \in Reqs, b \in VerifyInputs :
                   VerifyFind(r, b[1], b[2], b[3])
    \/ \E r \in Reqs : VerifySave(r)
    \/ \E r \in Reqs : VerifyFindOrder(r)
    \/ \E r \in Reqs : VerifySaveOrder(r)
    \/ \E r \in Reqs : VerifyOrderWriteFails(r)

OrderSpec == Init /\ [][OrderNext]_vars

\* The order requests alone
ShopNext ==
    \/ \E c \in BOOLEAN, items \in ItemInputs : CreateOrder(c, items)
    \/ \E o \in OrderIdInputs, s \in StatusInputs : UpdateOrderStatus(o, s)
    \/ \E o \in OrderIdInputs : DeleteOrder(o)

ShopSpec == Init /\ [][ShopNext]_vars

\* requests run one after another: none starts while another is in flight
SeqNext ==
    \/ Tick
    \/ Quiet /\ \E p \in PayTypeInputs, a \in Amounts, o \in OrderIdInputs,
                   x \in Randoms, y \in Notes : CreatePayment(p, a, o, x, y)
    \/ Quiet /\ Len(orders) < MaxOrders /\ CreateOrder(TRUE, OneItem)
    \/ Quiet /\ \E r \in Reqs, t \in TidInputs : StatusFind(r, t)
    \/ \E r \in Reqs : StatusSave(r)
    \/ Quiet /\ \E r \in Reqs, b \in VerifyInputs :
                   VerifyFind(r, b[1], b[2], b[3])
    \/ \E r \in Reqs : VerifySave(r)
    \/ \E r \in Reqs : VerifyFindOrder(r)
    \/ \E r \in Reqs : VerifySaveOrder(r)

SeqSpec == Init /\ [][SeqNext]_vars

\* creation with every kind of request body, and status reads of what was
\* created
CreateNext ==
    \/ Tick
    \/ \E p \in RawPayTypes, a \in RawAmounts, o \in CreateOrderIds,
          x \in TidRandoms, y \in Notes : CreatePayment(p, a, o, x, y)
    \/ Len(orders) < MaxOrders /\ CreateOrder(TRUE, OneItem)
    \/ \E r \in Reqs, t \in TidInputs : Quiet /\ StatusFind(r, t)
    \/ \E r \in Reqs : StatusSave(r)

CreateSpec == Init /\ [][CreateNext]_vars

\* the controller that reads the merchant handle from the settings, with
\* requests run one after another
SettingsNext ==
    \/ Tick
    \/ \E h \in Handles : Quiet /\ UpdateSettings(h)
    \/ Quiet /\ GetMerchantUPI
    \/ \E r \in Reqs, p \in SettingsPayTypes, a \in Amounts :
          Quiet /\ CreateFetch(r, p, a, Null)
    \/ \E r \in Reqs, x \in TidRandoms, y \in Notes : CreateSave(r, x, y)
    \/ \E r \in Reqs, t \in TidInputs : Quiet /\ StatusFind(r, t)
    \/ \E r \in Reqs : StatusSave(r)

SettingsSpec == Init /\ [][SettingsNext]_vars

---------------------------------------------------------------------------
(* Properties *)

Txns == 1..Len(txns)

Orders == 1..Len(orders)

Paid(order) == order.paymentStatus = "paid" /\ order.status = "confirmed"

Cancelled(order) == order.paymentStatus = "failed" /\ order.status = "cancelled"

\* the stored transaction a response is about
About(resp) == FindOne(resp.tid)

\* C1: two verify requests on the same pending transaction never both return
\* success (of the verifies that report a status other than pending, at most
\* one is answered with success), whatever the interleaving
C1_OneVerifyWins ==
    \A i \in Txns :
        Cardinality({n \in 1..Len(accepted[i]) : accepted[i][n] # "pending"}) <= 1

\* C2: a transaction that verify moved to success or failed is never
\* overwritten with expired, and one stored as expired is never overwritten
C2_WritesOnlyWhilePending ==
    [][\A i \in Txns :
          /\ txns[i].status \in {"success", "failed"}
                => txns'[i].status # "expired"
          /\ txns[i].status = "expired" => txns'[i].status = "expired"]_vars

\* C3: with the requests run one after another, a status other than pending
\* never changes, and a status changes only to expired, by the save of a
\* status read, or to the reported status, by the save of a verify
C3_TerminalIsFinal ==
    [][\A i \in Txns :
          /\ txns[i].status # "pending" => txns'[i].status = txns[i].status
          /\ txns'[i].status # txns[i].status =>
               \E r \in Reqs :
                   /\ reqs[r].id = i
                   /\ reqs'[r].pc # reqs[r].pc
                   /\ \/ reqs[r].pc = "s_save" /\ txns'[i].status = "expired"
                      \/ reqs[r].pc = "v_save"
                           /\ txns'[i].status = reqs[r].status]_vars

\* C3 with a transaction in a terminal status and a verify of it refused
C3_Witness ==
    /\ last.handler = "verify"
    /\ last.kind = "already"
    /\ last.status \in {"success", "expired"}

\* C4: the status of every stored transaction is one of pending, success,
\* failed, expired
C4_StatusInEnum ==
    \A i \in Txns : txns[i].status \in {"pending", "success", "failed", "expired"}

\* C5: with the requests run one after another, at most one verify of a
\* transaction is answered with success
C5_AtMostOneSuccess == \A i \in Txns : Len(accepted[i]) <= 1

\* no verify of the transaction has been answered with success
Unverified(i) == accepted[i] = <<>>

\* a status read answered past the expiry time of a transaction that was not
\* verified reports expired, and expired is what is stored
ReadPastExpiry ==
    (last.handler = "status" /\ last.kind = "ok") =>
        LET i == About(last)
        IN  (Unverified(i) /\ now > txns[i].expires) =>
                (last.status = "expired" /\ txns[i].status = "expired")

C7_FailedVerifyWritesNothing ==
    [][(last'.handler = "verify" /\ last'.kind # "ok") =>
          (txns' = txns /\ orders' = orders /\ reqs' = reqs)]_vars

\* a verify was refused while two transactions and an order are stored
C7_Witness ==
    /\ last.handler = "verify"
    /\ last.kind \in {"already", "badsig"}
    /\ Len(txns) = 2
    /\ Len(orders) = 1

\* C8: the step in which verify answers success for a transaction whose
\* orderId references a stored order leaves that order paid and confirmed
\* when the reported status is success, failed and cancelled when it is
\* failed, and no step of a verify changes another order
C8_OrderReconciled ==
    [][/\ (last'.handler = "verify" /\ last'.kind = "ok") =>
            LET o == txns[About(last')].orderId
            IN  (o # Null /\ o[1] \in Orders) =>
                    /\ last'.status = "success" => Paid(orders'[o[1]])
                    /\ last'.status = "failed" => Cancelled(orders'[o[1]])
       /\ \A r \in Reqs :
            reqs'[r] # reqs[r] =>
                \A k \in Orders :
                    (orders'[k] # orders[k]) =>
                        /\ reqs[r].pc = "v_saveOrder"
                        /\ txns[reqs[r].id].orderId = <<k>>]_vars

\* verify has answered success for a reported success and the order of the
\* transaction is paid and confirmed
C8_Witness ==
    /\ last.handler = "verify"
    /\ last.kind = "ok"
    /\ last.status = "success"
    /\ \E k \in Orders : txns[About(last)].orderId = <<k>> /\ Paid(orders[k])

\* C9: while no payment request is in flight, an order referenced by exactly
\* one transaction is paid and confirmed exactly when that transaction is
\* success, and failed and cancelled exactly when it is failed
C9_ReconciliationConsistent ==
    Quiet =>
        \A k \in Orders :
            LET refs == {i \in Txns : txns[i].orderId = <<k>>}
            IN  \A i \in refs :
                    refs = {i} =>
                        /\ txns[i].status = "success" <=> Paid(orders[k])
                        /\ txns[i].status = "failed" <=> Cancelled(orders[k])

\* C10: the save of a verify that reports a status other than success or
\* failed leaves the transaction with the reported status and a completedAt,
\* and no step of that verify changes an order
C10_OtherStatusSkipsOrder ==
    [][\A r \in Reqs :
          (reqs'[r] # reqs[r] /\ reqs[r].pc \in {"v_save", "v_findOrder", "v_saveOrder"}
             /\ reqs[r].status \notin {"success", "failed"}) =>
              /\ orders' = orders
              /\ reqs[r].pc = "v_save" =>
                    /\ txns'[reqs[r].id].status = reqs[r].status
                    /\ txns'[reqs[r].id].completedAt # Null]_vars

\* verify has answered success for a reported refunded, the transaction is
\* stored as refunded and its order is as it was created
C10_Witness ==
    /\ last.handler = "verify"
    /\ last.kind = "ok"
    /\ last.status = "refunded"
    /\ txns[About(last)].status = "refunded"
    /\ txns[About(last)].completedAt # Null
    /\ \E k \in Orders :
          txns[About(last)].orderId = <<k>> /\ orders[k] = NewOrder(OneItem)

\* a payType that names one of the two providers, in any case and with
\* blanks around it
NamesProvider(payType) ==
    /\ payType.type = "string"
    /\ \E q \in {PhonePe, Paytm} :
          /\ Len(Trim(payType.text)) = Len(q)
          /\ \A k \in 1..Len(q) :
                Trim(payType.text)[k] = q[k] \/
                \E u \in 1..Len(Uppers) :
                    Uppers[u] = Trim(payType.text)[k] /\ Lowers[u] = q[k]

\* C11: a create whose amount or payType is missing, or whose payType is
\* not phonepe or paytm, is answered with a 400 error and stores nothing,
\* and the provider of every stored intent is phonepe or paytm
C11_InvalidCreateIs400 ==
    [][/\ (last'.handler = "create" /\ last'.kind # "ok") =>
            /\ txns' = txns
            /\ (\/ last'.amount.type = "undefined"
                \/ last'.payType.type = "undefined"
                \/ ~NamesProvider(last'.payType)) =>
                   last'.kind \in {"invalid", "unsupported"}
       /\ \A i \in 1..Len(txns') : txns'[i].payType \in PayTypes]_vars

CreatedOk(resp) == resp.handler = "create" /\ resp.kind = "ok"

\* C12: the step in which create answers 200 adds exactly one intent, with
\* status pending and null completedAt, leaves every other intent and every
\* order unchanged, and answers with the tid, payload, signature, deep link
\* and expiry stored in the new intent; no other step adds an intent
C12_CreateAddsOne ==
    [][/\ CreatedOk(last') =>
            /\ Len(txns') = Len(txns) + 1
            /\ SubSeq(txns', 1, Len(txns)) = txns
            /\ orders' = orders
            /\ LET doc == txns'[Len(txns')]
               IN  /\ doc.status = "pending"
                   /\ doc.completedAt = Null
                   /\ last'.tid = doc.tid
                   /\ last'.payload = doc.payload
                   /\ last'.sig = doc.signature
                   /\ last'.redirect_url = doc.redirectUrl
                   /\ last'.expires = doc.expires
       /\ Len(txns') # Len(txns) => CreatedOk(last')]_vars

\* a create has answered 200 with an intent and an order already stored
C12_Witness ==
    /\ CreatedOk(last)
    /\ Len(txns) = 2
    /\ Len(orders) = 1
    /\ txns[1].status = "expired"

C17_AmountPositive ==
    \A i \in Txns : ~txns[i].amount.nan /\ txns[i].amount.v > 0

\* C14: the stored signature of every intent is the MAC of its stored
\* payload, and verify answers with a signature mismatch only when the
\* request carries a signature other than the stored one
C14_SignatureRoundTrip ==
    /\ \A i \in Txns : txns[i].signature = createSignature(txns[i].payload)
    /\ (last.handler = "verify" /\ last.kind = "badsig") =>
          last.sig # txns[About(last)].signature

\* a verify carrying the stored signature has passed the signature check
C14_Witness ==
    /\ last.handler = "verify"
    /\ last.kind = "already"
    /\ last.sig = txns[About(last)].signature

\* C15: for every stored intent, whatever its status, verify with a
\* signature other than the MAC of the stored payload is a signature
\* mismatch, and verify without signature is decided by the status alone
C15_SignatureCheckedFirst ==
    /\ \A i \in Txns :
          /\ \A g \in SignatureInputs(txns[i].tid) :
                g \notin {Null, createSignature(txns[i].payload)} =>
                    VerifyCheck(FindOne(txns[i].tid), g) = "badsig"
          /\ VerifyCheck(FindOne(txns[i].tid), Null) =
                IF txns[i].status = "pending" THEN "ok" ELSE "already"
    /\ (last.handler = "verify" /\ last.kind \in {"badsig", "already"}) =>
          (last.kind = "badsig" <=>
              last.sig \notin {Null, txns[About(last)].signature})

\* verify of an intent that is no longer pending was refused for its signature
C15_Witness ==
    /\ last.handler = "verify"
    /\ last.kind = "badsig"
    /\ txns[About(last)].status \in {"success", "expired"}

\* the fields of an intent that are set at creation
Frozen(doc) ==
    <<doc.tid, doc.orderId, doc.amount, doc.payType, doc.upi, doc.payload,
      doc.signature, doc.redirectUrl, doc.note, doc.expires>>

\* C16: no step removes an intent or changes the tid, orderId, amount,
\* provider, handle, payload, signature, deep link, note or expiry time of a
\* stored intent
C16_CreationFieldsFrozen ==
    [][/\ Len(txns') >= Len(txns)
       /\ \A i \in Txns : Frozen(txns'[i]) = Frozen(txns[i])]_vars

\* an intent has been written by a verify and by a status read
C16_Witness ==
    \E i \in Txns :
        /\ txns[i].status = "expired"
        /\ txns[i].completedAt # Null

\* C18: completedAt is null while the status is pending and set once the
\* status is success, failed or expired
C18_CompletedIffTerminal ==
    \A i \in Txns :
        /\ txns[i].status = "pending" => txns[i].completedAt = Null
        /\ txns[i].status \in {"success", "failed", "expired"} =>
              txns[i].completedAt # Null

\* a step of a status read: its response, or the start of its save
StatusStep ==
    \/ last'.handler = "status"
    \/ \E r \in Reqs : reqs[r].pc = "idle" /\ reqs'[r].pc = "s_save"

\* C19: a status read changes nothing but the status of the intent it
\* reads, to expired, and only when that intent is stored as pending and the
\* time is later than its expiry time; a read of a pending intent at or
\* before its expiry time, or of an intent that is not pending (an expired
\* one included), writes nothing and answers with the stored status
C19_ReadWritesOnlyExpiry ==
    [][StatusStep =>
          /\ orders' = orders
          /\ Len(txns') = Len(txns)
          /\ \A i \in Txns :
                txns'[i] # txns[i] =>
                    /\ txns[i].status = "pending"
                    /\ now > txns[i].expires
                    /\ txns'[i] = [txns[i] EXCEPT !.status = "expired"]
                    /\ last'.kind = "ok"
                    /\ last'.status = "expired"
                    /\ About(last') = i
          /\ (last'.handler = "status" /\ last'.kind = "ok") =>
                LET i == About(last')
                IN  (txns[i].status # "pending" \/ now <= txns[i].expires) =>
                        /\ txns' = txns
                        /\ last'.status = txns[i].status]_vars

\* a read at the expiry time itself has answered pending
C19_Witness ==
    /\ last.handler = "status"
    /\ last.kind = "ok"
    /\ last.status = "pending"
    /\ now = txns[About(last)].expires

\* C20: the handle stored in an intent is the handle configured when the
\* intent was created; no step changes the handle of a stored intent, a
\* status read answers with the stored handle, and the merchant-upi endpoint
\* answers with the handle configured now
C20_HandleCapturedAtCreation ==
    [][/\ \A i \in Txns : txns'[i].upi = txns[i].upi
       /\ CreatedOk(last') =>
             txns'[Len(txns')].upi = settings.merchantUPI
       /\ (last'.handler = "status" /\ last'.kind = "ok") =>
             last'.upi = txns[About(last')].upi
       /\ last'.handler = "merchant-upi" =>
             last'.upi = settings.merchantUPI]_vars

\* after a change of the handle, a status read of an intent created before
\* it has answered with the old handle while a newer intent has the new one
C20_Witness ==
    /\ last.handler = "status"
    /\ last.kind = "ok"
    /\ last.upi # settings.merchantUPI
    /\ last.upi = txns[About(last)].upi
    /\ \E i \in Txns : txns[i].upi = settings.merchantUPI

\* the Paytm deep link with handle, amount and note inserted as they are
PaytmLinkVerbatim(upi, note, amount) ==
    <<"paytmmp://cash_wallet?", "pa=">> \o HandleChars(upi) \o
    <<"&am=">> \o NumberToString(amount) \o
    <<"&tn=">> \o NoteChars(note) \o
    <<"&pn=">> \o HandleChars(upi) \o PaytmFixedParams

\* C21: the deep link a create answers with is, for paytm, the cash_wallet
\* link with the merchant handle inserted verbatim and, for phonepe, the
\* native link with the url-encoded base64 payload
C21_DeepLinkFormat ==
    CreatedOk(last) =>
        LET doc == txns[About(last)]
        IN  IF doc.payType = "paytm"
            THEN last.redirect_url =
                     PaytmLinkVerbatim(doc.upi, doc.note, doc.amount)
            ELSE last.redirect_url =
                     <<"phonepe://native?data=",
                       EncodeURIComponent(doc.payload), "&id=p2ppayment">>

\* C23: verify does not look at the expiry time: past the expiry time a
\* pending transaction is still accepted by verify, a verify answered success
\* has stored success and left the linked order paid and confirmed, and a
\* verify is refused only when a status read has stored expired or an earlier
\* verify has stored its status (as far as the history of verifies is kept)
C23_VerifyIgnoresExpiry ==
    /\ \A i \in Txns :
          now > txns[i].expires =>
              VerifyCheck(FindOne(txns[i].tid), Null) =
                  IF txns[i].status = "pending" THEN "ok" ELSE "already"
    /\ (last.handler = "verify" /\ last.kind \in {"ok", "already"}) =>
          LET i == About(last)
              o == txns[i].orderId
          IN  now > txns[i].expires =>
                  /\ (last.kind = "ok" /\ last.status = "success") =>
                        /\ txns[i].status = "success"
                        /\ (o # Null /\ o[1] \in Orders) => Paid(orders[o[1]])
                  /\ (last.kind = "already" /\ Len(accepted[i]) < MaxAccepted) =>
                        \/ txns[i].status = "expired"
                        \/ \E n \in 1..Len(accepted[i]) :
                              accepted[i][n] = txns[i].status

\* a verify that came after the expiry time, with no status read in between,
\* was answered success and the linked order is paid and confirmed
C23_Witness ==
    /\ last.handler = "verify"
    /\ last.kind = "ok"
    /\ last.status = "success"
    /\ now > txns[About(last)].expires
    /\ \E k \in Orders : txns[About(last)].orderId = <<k>> /\ Paid(orders[k])

\* C26: the order update of verify does not depend on what the order holds:
\* for a reported success or failed it yields the same paymentStatus and
\* status from any stored order, and when verify has answered for one of two
\* transactions of the same order, the order is as that verify reported, also
\* when the other transaction is stored as success and the report was failed
C26_LastVerifyWins ==
    /\ \A k \in Orders : \A s \in {"success", "failed"} :
          /\ OrderUpdate(s, orders[k]).paymentStatus =
                OrderUpdate(s, NewOrder(OneItem)).paymentStatus
          /\ OrderUpdate(s, orders[k]).status =
                OrderUpdate(s, NewOrder(OneItem)).status
    /\ (last.handler = "verify" /\ last.kind = "ok") =>
          LET i == About(last)
          IN  \A k \in Orders : \A j \in Txns \ {i} :
                  (txns[i].orderId = <<k>> /\ txns[j].orderId = <<k>>) =>
                      /\ last.status = "failed" => Cancelled(orders[k])
                      /\ last.status = "success" => Paid(orders[k])

\* an order paid through one transaction was cancelled by the verify of
\* another transaction of the same order that reported failed
C26_Witness ==
    /\ last.handler = "verify"
    /\ last.kind = "ok"
    /\ last.status = "failed"
    /\ \E k \in Orders : \E j \in Txns \ {About(last)} :
          /\ txns[About(last)].orderId = <<k>>
          /\ txns[j].orderId = <<k>>
          /\ txns[j].status = "success"
          /\ Cancelled(orders[k])

\* C25: in every reachable state an order with paymentStatus paid is the
\* order of some transaction stored with status success
C25_PaidHasSuccess ==
    \A k \in Orders :
        orders[k].paymentStatus = "paid" =>
            \E i \in Txns : txns[i].orderId = <<k>> /\ txns[i].status = "success"

\* C22: when the order a pending transaction names does not exist (it was
\* never created, or deleteOrder removed it before the verify), the verify
\* still answers success: the transaction holds the reported status, and the
\* step that finds no order creates and changes no order
C22_MissingOrderStillSucceeds ==
    [][\A r \in Reqs :
          (/\ reqs[r].pc = "v_findOrder"
           /\ reqs'[r] # reqs[r]
           /\ FindById(reqs[r].orderId) = 0) =>
              /\ last' = Resp("verify", reqs[r].tid, Null, "ok", reqs[r].status)
              /\ txns[reqs[r].id].status = reqs[r].status
              /\ txns' = txns
              /\ orders' = orders
              /\ removed' = removed]_vars

\* verify has answered success for a transaction whose order was deleted
C22_Witness ==
    /\ last.handler = "verify"
    /\ last.kind = "ok"
    /\ last.status = "success"
    /\ txns[About(last)].status = "success"
    /\ \E k \in removed : txns[About(last)].orderId = <<k>>

\* the transaction holds a success or failed that no answered verify
\* reported: the verify that stored it failed at the write of the order
OrderWriteFailed(i) ==
    /\ txns[i].status \in {"success", "failed"}
    /\ Len(accepted[i]) < MaxAccepted
    /\ \A n \in 1..Len(accepted[i]) : accepted[i][n] # txns[i].status

\* C24: verify writes the transaction before the order, in two writes: the
\* step that saves the transaction leaves the orders alone and a step that
\* changes an order finds the transaction already holding the reported status;
\* when the order write fails the answer is an error and the transaction and
\* the orders stay as they are; from then on verify is refused as already
\* processed and the order keeps the payment status it had
C24_OrderWriteFailure ==
    [][/\ \A r \in Reqs :
            /\ (reqs[r].pc = "v_save" /\ reqs'[r] # reqs[r]) => orders' = orders
            /\ (reqs[r].pc = "v_saveOrder" /\ reqs'[r] # reqs[r]) =>
                  /\ txns' = txns
                  /\ txns[reqs[r].id].status = reqs[r].status
                  /\ last'.kind = "error" => orders' = orders
       /\ \A i \in Txns :
            OrderWriteFailed(i)' =>
                LET k == FindById(txns[i].orderId)
                IN  /\ VerifyCheck(i, Null)' = "already"
                    /\ k # 0 => orders'[k].paymentStatus = orders[k].paymentStatus
                    /\ k # 0 => ~Paid(orders'[k]) /\ ~Cancelled(orders'[k])]_vars

\* the order write of a verify reporting success failed, and the retry was
\* refused as already processed while the order is still unpaid
C24_Witness ==
    /\ last.handler = "verify"
    /\ last.kind = "already"
    /\ last.status = "success"
    /\ OrderWriteFailed(About(last))
    /\ \E r \in Reqs : reqs[r].pc = "idle"
    /\ FindById(txns[About(last)].orderId) # 0
    /\ ~Paid(orders[FindById(txns[About(last)].orderId)])

\* the product of the item is missing or inactive, or its stock is below the
\* quantity asked for
Unavailable(item) ==
    \/ item.id \notin DOMAIN products
    \/ products[item.id].status # "active"
    \/ products[item.id].stockQuantity < item.quantity

\* the quantity of a product in the products of an order
RECURSIVE QuantityIn(_, _)
QuantityIn(items, id) ==
    IF items = <<>> THEN 0
    ELSE (IF Head(items).id = id THEN Head(items).quantity ELSE 0)
             + QuantityIn(Tail(items), id)

\* the quantity of a product in the first n orders
RECURSIVE TotalOrdered(_, _)
TotalOrdered(n, id) ==
    IF n = 0 THEN 0
    ELSE QuantityIn(orders[n].products, id) + TotalOrdered(n - 1, id)

\* C27: createOrder refuses a request with a product that is missing,
\* inactive or short of stock; a refused request stores no order, an accepted
\* one stores exactly its order; and no createOrder changes the stock of a
\* product, which stays what it was initially
C27_StockNeverTaken ==
    [][last'.handler = "createOrder" =>
          /\ products' = products
          /\ products' = Catalogue
          /\ (\E n \in 1..Len(last'.items) : Unavailable(last'.items[n])) =>
                last'.kind \in {"missing", "noproduct", "nostock"}
          /\ last'.kind # "created" => orders' = orders
          /\ last'.kind = "created" =>
                /\ orders' = Append(orders, NewOrder(last'.items))
                /\ \A n \in 1..Len(last'.items) : ~Unavailable(last'.items[n])]_vars

\* an order was just accepted and the quantity ordered of a product is more
\* than its stock, which is the initial one
C27_Witness ==
    /\ last.handler = "createOrder"
    /\ last.kind = "created"
    /\ \E id \in DOMAIN products :
          /\ products[id] = Catalogue[id]
          /\ QuantityIn(last.items, id) > 0
          /\ TotalOrdered(Len(orders), id) > products[id].stockQuantity

====
